---- MODULE Spec2Model ----
(***************************************************************************)
(* target-sftp: the staged, crash-recoverable upload of a local directory  *)
(* tree to an SFTP server (target_sftp/__init__.py).                        *)
(*                                                                         *)
(* A file or directory name is a sequence of tokens: <<"a">>, the dotfile  *)
(* <<".", "h">>, the staged upload <<"a", ".target_tmp">>.  A path is the   *)
(* sequence of the names from the server root: "/" is << >>, "/p/a" is     *)
(* << <<"p">>, <<"a">> >>.                                                  *)
(***************************************************************************)
EXTENDS Naturals, Sequences, FiniteSets, TLC

\* ------------------------------------------------------------------ bounds
MaxRuns == 2        \* invocations of upload in one behaviour
MaxFailures == 1    \* remote operations the server rejects out of the blue
MaxKills == 1       \* invocations that are killed before they end
MaxSize == 11       \* the size of a file transferred in chunks, in bytes
MaxWorkers == 5     \* the workers of a chunked transfer

\* ------------------------------------------------------- names and paths
TMP == ".target_tmp"
OLD == ".target_old"
DIRTMP == "_target_tmp"

NoPath == << >>     \* None, for a File's local_path / remote_path

A == <<"a">>
H == <<".", "h">>
B == <<"b">>
X == <<"x">>
SUB == <<"sub">>
P == <<"p">>
O == <<"o">>
D == <<"d", "_target_tmp">>    \* a directory that carries the staging marker

Root == << >>
Prefix == <<P>>     \* config["path_prefix"] = "/p"

Join(path, name) == Append(path, name)
Dirname(path) == IF path = << >> THEN << >> ELSE SubSeq(path, 1, Len(path) - 1)
Basename(path) == path[Len(path)]
EndsWith(name, suffix) == Len(name) > 1 /\ name[Len(name)] = suffix
StripSuffix(name) == SubSeq(name, 1, Len(name) - 1)
AddSuffix(path, suffix) == [path EXCEPT ![Len(path)] = Append(@, suffix)]
StartsWithDot(name) == name[1] = "."
IsUnder(path, root) == Len(path) >= Len(root) /\ SubSeq(path, 1, Len(root)) = root

\* The order in which a listing returns the names of one directory.
ListOrder ==
    <<A, Append(A, TMP), Append(A, OLD),
      H, Append(H, TMP), Append(H, OLD),
      B, Append(B, TMP), Append(B, OLD),
      X, Append(X, TMP), Append(X, OLD),
      Append(Append(A, TMP), OLD),
      SUB, D, P, O>>

RECURSIVE SeqToSet(_)
SeqToSet(s) == IF s = << >> THEN {} ELSE {Head(s)} \cup SeqToSet(Tail(s))

Reverse(s) == [i \in 1..Len(s) |-> s[Len(s) + 1 - i]]

\* ------------------------------------------------------------ the server
\* files: a function from the paths of the files to their content;
\* dirs: the set of the paths of the directories.
IsFile(files, path) == path \in DOMAIN files
IsDir(dirs, path) == path \in dirs
Exists(files, dirs, path) == IsFile(files, path) \/ IsDir(dirs, path)

Without(files, path) == [q \in DOMAIN files \ {path} |-> files[q]]
With(files, path, content) ==
    [q \in DOMAIN files \cup {path} |-> IF q = path THEN content ELSE files[q]]

\* listdir / listdir_attr: the names in one directory, in listing order.
ListDir(files, dirs, path) ==
    SelectSeq(ListOrder, LAMBDA n : Exists(files, dirs, Join(path, n)))
ListFiles(files, dirs, path) ==
    SelectSeq(ListOrder, LAMBDA n : IsFile(files, Join(path, n)))
ListDirs(files, dirs, path) ==
    SelectSeq(ListOrder, LAMBDA n : IsDir(dirs, Join(path, n)))

\* rename: the source must exist; onto an existing target the standard SFTP
\* rename fails, a server that renames as POSIX does replaces the target.
RenameOk(files, posix, src, dst) ==
    IsFile(files, src) /\ (IsFile(files, dst) => posix)
Rename(files, src, dst) == With(Without(files, src), dst, files[src])

\* ------------------------------------------------------------- FolderTree
File(name, local_path, remote_path, should_be_copied) ==
    [name |-> name, local_path |-> local_path, remote_path |-> remote_path,
     should_be_copied |-> should_be_copied]

Folder(name, path, nested_folders, files) ==
    [name |-> name, path |-> path, nested_folders |-> nested_folders, files |-> files]

get_nested_folder(folder, name) ==
    SelectSeq(folder.nested_folders, LAMBDA f : f.name = name)

get_file(folder, name) ==
    SelectSeq(folder.files, LAMBDA f : f.name = name)

\* build_local_tree: localFiles is the set of the files under input_path,
\* each as its path relative to input_path.
LocalDirsIn(localFiles, path) ==
    SelectSeq(ListOrder, LAMBDA n :
        \E f \in localFiles : Len(f) > Len(path) + 1 /\ IsUnder(f, Join(path, n)))
LocalFilesIn(localFiles, path) ==
    SelectSeq(ListOrder, LAMBDA n : Join(path, n) \in localFiles)

RECURSIVE LocalFolder(_, _, _)
LocalFolder(localFiles, name, path) ==
    LET dnames == LocalDirsIn(localFiles, path)
        fnames == LocalFilesIn(localFiles, path)
    IN  Folder(name, path,
               [i \in 1..Len(dnames) |->
                   LocalFolder(localFiles, dnames[i], Join(path, dnames[i]))],
               [i \in 1..Len(fnames) |->
                   File(fnames[i], Join(path, fnames[i]), NoPath, TRUE)])

build_local_tree(localFiles) == LocalFolder(localFiles, <<"root">>, << >>)

\* build_remote_tree.scan_directory: hidden entries are skipped, a
\* directory becomes a Folder and is scanned, a file becomes a File with
\* its remote_path set and should_be_copied False.
RECURSIVE scan_directory(_, _, _, _, _)
scan_directory(files, dirs, root_path, current_path, name) ==
    LET visible == SelectSeq(ListDir(files, dirs, current_path),
                             LAMBDA n : ~StartsWithDot(n))
        dnames == SelectSeq(visible, LAMBDA n : IsDir(dirs, Join(current_path, n)))
        fnames == SelectSeq(visible, LAMBDA n : ~IsDir(dirs, Join(current_path, n)))
    IN  Folder(name,
               SubSeq(current_path, Len(root_path) + 1, Len(current_path)),
               [i \in 1..Len(dnames) |->
                   scan_directory(files, dirs, root_path,
                                  Join(current_path, dnames[i]), dnames[i])],
               [i \in 1..Len(fnames) |->
                   File(fnames[i], NoPath, Join(current_path, fnames[i]), FALSE)])

build_remote_tree(files, dirs, root_path) ==
    scan_directory(files, dirs, root_path, root_path, <<"root">>)

\* prepare_upload_tree.find_remote_folder: << >> stands for None, a found
\* folder is returned as the one-element sequence of it.
RECURSIVE find_remote_folder(_, _)
find_remote_folder(current_remote_folder, path_parts) ==
    IF path_parts = << >> THEN <<current_remote_folder>>
    ELSE LET next_folder == get_nested_folder(current_remote_folder, Head(path_parts))
         IN  IF next_folder = << >> THEN << >>
             ELSE find_remote_folder(Head(next_folder), Tail(path_parts))

\* A planner that skips every file the remote tree has, whatever overwrite
\* says (as FolderTree.File.localize would flag it).
LocalizeFile_SkipExisting(file, remote_folder, current_path, overwrite) ==
    IF file.remote_path # NoPath THEN file
    ELSE LET existing_remote ==
                 IF remote_folder = << >> THEN << >>
                 ELSE get_file(Head(remote_folder), file.name)
         IN  [file EXCEPT
                 !.remote_path = Join(current_path, file.name),
                 !.should_be_copied = IF existing_remote # << >> THEN FALSE ELSE @]

\* A planner without the guard on remote_path: it plans a file again each
\* time it is called.
LocalizeFile_Replan(file, remote_folder, current_path, overwrite) ==
    LET existing_remote ==
            IF remote_folder = << >> THEN << >>
            ELSE get_file(Head(remote_folder), file.name)
    IN  [file EXCEPT
            !.remote_path = Join(current_path, file.name),
            !.should_be_copied = ~(existing_remote # << >> /\ ~overwrite)]

\* The planning of one file (the body of the loop of localize_files).
LocalizeFile(file, remote_folder, current_path, overwrite) ==
    IF file.remote_path # NoPath THEN file
    ELSE LET existing_remote ==
                 IF remote_folder = << >> THEN << >>
                 ELSE get_file(Head(remote_folder), file.name)
         IN  [file EXCEPT
                 !.remote_path = Join(current_path, file.name),
                 !.should_be_copied =
                     IF existing_remote # << >> /\ ~overwrite THEN FALSE ELSE @]

RECURSIVE localize_files(_, _, _, _)
localize_files(local_folder, remote_tree, current_path, overwrite) ==
    LET remote_folder == find_remote_folder(remote_tree, local_folder.path)
    IN  [local_folder EXCEPT
            !.files = [i \in 1..Len(@) |->
                LocalizeFile(@[i], remote_folder, current_path, overwrite)],
            !.nested_folders = [i \in 1..Len(@) |->
                localize_files(@[i], remote_tree,
                               Join(current_path, @[i].name), overwrite)]]

prepare_upload_tree(local_tree, remote_tree, root_path, overwrite) ==
    localize_files(local_tree, remote_tree, root_path, overwrite)

\* The files of a tree in the order upload_folder visits them: the files of
\* a folder, then its nested folders.
RECURSIVE TreeFiles(_)
RECURSIVE TreeFilesOfAll(_)
TreeFilesOfAll(folders) ==
    IF folders = << >> THEN << >>
    ELSE TreeFiles(Head(folders)) \o TreeFilesOfAll(Tail(folders))
TreeFiles(folder) == folder.files \o TreeFilesOfAll(folder.nested_folders)

\* ------------------------------------------------------------------ state
VARIABLES
    rfiles,                 \* the server: path of a file -> content
    rdirs,                  \* the server: paths of the directories
    posix,                  \* the server renames onto an existing target
    localFiles,             \* the files under config["input_path"]
    inputExists,            \* config["input_path"] exists
    overwrite,              \* config["overwrite"] of the running invocation
    conn,                   \* the SFTPConnection: "none", "open", "closed"
    cwd,                    \* the working directory of the session: << >>
                            \* (None, as on a new session) or <<the path>>
    original_cwd,           \* build_remote_tree: original_path, the getcwd() it keeps
    pc,                     \* where the invocation stands
    local_tree, remote_tree, prepared_tree,     \* << >> or <<Folder>>
    cleanup_root,           \* << >> or <<the path cleanup was called with>>
    stack,                  \* the calls of cleanup_directory in progress
    idx,                    \* the position of the running loop
    dirs_to_create,
    uploaded_tmp_files, renamed_old_files, created_directories,
    exc,                    \* the exception that started the rollback
    result,                 \* "none", "ok" (returned), "raised"
    rb_log,                 \* what the rollback logged, step by step
    run, nfail, nkill,      \* invocations started, rejections, kills so far
    clean,                  \* the server rejected nothing in this invocation
    failedAt,               \* where an operation of Stage, Displace or Publish
                            \* was rejected first in this invocation
    prev,                   \* how the invocation before this one ended
    orig,                   \* the server before the first invocation
    pre,                    \* the server when the running invocation began
    stage0                  \* the server when Stage began

\* SFTPConnection (client.py), while client.connection(config).sftp runs.
VARIABLES
    cpc,                    \* "idle", "connect" (inside __connect), "returned",
                            \* "raised"
    tries,                  \* the calls of __connect the backoff decorator made
    connect_i,              \* i, the variable of the loop of __connect
    transport,              \* self.transport: "none" or "open"
    sftp,                   \* self.__sftp is set
    attempts,               \* connection attempts made so far
    unclosed                \* transports replaced in self.transport while open

\* The chunked transfer of one file.
VARIABLES
    file_size,              \* S, in bytes
    worker_count,           \* N
    ranges                  \* the byte ranges given out so far, <<offset, end>>
                            \* for the bytes offset .. end - 1

client == <<cpc, tries, connect_i, transport, sftp, attempts, unclosed>>
chunked == <<file_size, worker_count, ranges>>

prog == <<rfiles, rdirs, cwd, original_cwd, pc, local_tree, remote_tree, prepared_tree, cleanup_root,
          stack, idx, dirs_to_create, uploaded_tmp_files, renamed_old_files,
          created_directories, exc, result, rb_log>>
env == <<posix, localFiles, inputExists, overwrite, conn>>
ghost == <<run, nfail, nkill, clean, failedAt, prev, orig, pre, stage0>>
vars == <<prog, env, ghost, client, chunked>>

\* The state of the invocation and of the server as one record, so that a
\* step is a function from records to records.
Cur ==
    [rfiles |-> rfiles, rdirs |-> rdirs, posix |-> posix, localFiles |-> localFiles,
     overwrite |-> overwrite, cwd |-> cwd, original_cwd |-> original_cwd,
     pc |-> pc, local_tree |-> local_tree,
     remote_tree |-> remote_tree, prepared_tree |-> prepared_tree,
     cleanup_root |-> cleanup_root, stack |-> stack, idx |-> idx,
     dirs_to_create |-> dirs_to_create, uploaded_tmp_files |-> uploaded_tmp_files,
     renamed_old_files |-> renamed_old_files,
     created_directories |-> created_directories, exc |-> exc, result |-> result,
     rb_log |-> rb_log]

Set(s) ==
    /\ rfiles' = s.rfiles /\ rdirs' = s.rdirs /\ pc' = s.pc
    /\ cwd' = s.cwd /\ original_cwd' = s.original_cwd
    /\ local_tree' = s.local_tree /\ remote_tree' = s.remote_tree
    /\ prepared_tree' = s.prepared_tree /\ cleanup_root' = s.cleanup_root
    /\ stack' = s.stack /\ idx' = s.idx /\ dirs_to_create' = s.dirs_to_create
    /\ uploaded_tmp_files' = s.uploaded_tmp_files
    /\ renamed_old_files' = s.renamed_old_files
    /\ created_directories' = s.created_directories
    /\ exc' = s.exc /\ result' = s.result /\ rb_log' = s.rb_log

\* upload, up to the first remote call: the state of a fresh invocation.
Fresh(files, dirs, px, lfiles, ow) ==
    [rfiles |-> files, rdirs |-> dirs, posix |-> px, localFiles |-> lfiles,
     overwrite |-> ow, cwd |-> << >>, original_cwd |-> << >>,
     pc |-> "build_local_tree", local_tree |-> << >>,
     remote_tree |-> << >>, prepared_tree |-> << >>, cleanup_root |-> << >>,
     stack |-> << >>, idx |-> 1, dirs_to_create |-> << >>,
     uploaded_tmp_files |-> << >>, renamed_old_files |-> << >>,
     created_directories |-> << >>, exc |-> "None", result |-> "none",
     rb_log |-> << >>]

\* ------------------------------------------------- cleanup_previous_artifacts
\* A call of cleanup_directory in progress: its path and what is left of
\* its work, decided from the listing it took on entry:
\* "restore" every .target_old file, "remove" every .target_tmp file,
\* "descend" into every directory, "rmdir" the path if it ends in _target_tmp.
CleanupTodo(files, dirs, path) ==
    LET fnames == ListFiles(files, dirs, path)
        dnames == ListDirs(files, dirs, path)
        olds == SelectSeq(fnames, LAMBDA n : EndsWith(n, OLD))
        tmps == SelectSeq(fnames, LAMBDA n : EndsWith(n, TMP))
    IN  [i \in 1..Len(olds) |-> <<"restore", Join(path, olds[i])>>]
        \o [i \in 1..Len(tmps) |-> <<"remove", Join(path, tmps[i])>>]
        \o [i \in 1..Len(dnames) |-> <<"descend", Join(path, dnames[i])>>]
        \o (IF path # << >> /\ EndsWith(Basename(path), DIRTMP)
            THEN << <<"rmdir", path>> >> ELSE << >>)

\* The entry of cleanup_directory(path): the listing fails with an IOError
\* (logged, the call ends) or the call starts on what it listed.
cleanup_directory(s, path, inj) ==
    IF inj = "ok" /\ IsDir(s.rdirs, path)
    THEN [s EXCEPT !.stack = Append(@, [path |-> path,
                                        todo |-> CleanupTodo(s.rfiles, s.rdirs, path)])]
    ELSE s

\* A call with nothing left to do returns to its caller.
RECURSIVE Unwind(_)
Unwind(stk) ==
    IF stk # << >> /\ stk[Len(stk)].todo = << >>
    THEN Unwind(SubSeq(stk, 1, Len(stk) - 1))
    ELSE stk

\* A cleanup whose handlers log nothing and let a failure through: the error
\* leaves cleanup_previous_artifacts and reaches the except clause of
\* execute_upload.
CleanupOp_Propagate(s, op, inj) ==
    LET kind == op[1]
        full_path == op[2]
        original_path == [full_path EXCEPT ![Len(full_path)] = StripSuffix(@)]
        raised == [s EXCEPT !.stack = << >>, !.pc = "rollback_dirs", !.idx = 1,
                            !.exc = "cleanup"]
    IN  CASE kind = "restore" ->
                IF inj = "ok" /\ RenameOk(s.rfiles, s.posix, full_path, original_path)
                THEN [s EXCEPT !.rfiles = Rename(@, full_path, original_path)]
                ELSE raised
          [] kind = "remove" ->
                IF inj = "ok" /\ IsFile(s.rfiles, full_path)
                THEN [s EXCEPT !.rfiles = Without(@, full_path)]
                ELSE raised
          [] kind = "descend" ->
                IF inj = "ok" /\ IsDir(s.rdirs, full_path)
                THEN [s EXCEPT !.stack = Append(@, [path |-> full_path,
                                   todo |-> CleanupTodo(s.rfiles, s.rdirs, full_path)])]
                ELSE raised
          [] kind = "rmdir" ->
                IF inj = "ok" /\ IsDir(s.rdirs, full_path)
                THEN IF ListDir(s.rfiles, s.rdirs, full_path) = << >>
                     THEN [s EXCEPT !.rdirs = @ \ {full_path}] ELSE s
                ELSE raised

\* One remote operation of the cleanup; a failure is logged and passed over.
CleanupOp(s, op, inj) ==
    LET kind == op[1]
        full_path == op[2]
        original_path == [full_path EXCEPT ![Len(full_path)] = StripSuffix(@)]
    IN  CASE kind = "restore" ->
                IF inj = "ok" /\ RenameOk(s.rfiles, s.posix, full_path, original_path)
                THEN [s EXCEPT !.rfiles = Rename(@, full_path, original_path)]
                ELSE s
          [] kind = "remove" ->
                IF inj = "ok" /\ IsFile(s.rfiles, full_path)
                THEN [s EXCEPT !.rfiles = Without(@, full_path)]
                ELSE s
          [] kind = "descend" -> cleanup_directory(s, full_path, inj)
          [] kind = "rmdir" ->
                IF inj = "ok" /\ IsDir(s.rdirs, full_path)
                   /\ ListDir(s.rfiles, s.rdirs, full_path) = << >>
                THEN [s EXCEPT !.rdirs = @ \ {full_path}]
                ELSE s

\* ------------------------------------------------------------ execute_upload
\* The files upload_folder transfers, in its order.
Queue(s) ==
    SelectSeq(TreeFiles(Head(s.prepared_tree)), LAMBDA f : f.should_be_copied)

\* The root the cleanup is called with.
CleanupRoot(prepared) ==
    IF prepared.files # << >> THEN Dirname(prepared.files[1].remote_path) ELSE Root

\* The directories to create for parent_dir, root to leaf: the walk upward
\* stops at the first path that stat finds.
RECURSIVE MissingDirs(_, _, _)
MissingDirs(files, dirs, current_dir) ==
    IF current_dir = << >> \/ Exists(files, dirs, current_dir) THEN << >>
    ELSE Append(MissingDirs(files, dirs, Dirname(current_dir)), current_dir)

\* The control passes over the loops that have nothing left to do, up to
\* the next remote operation or to the end of execute_upload.
RECURSIVE Advance(_)
Advance(s) ==
    CASE s.pc = "cleanup" ->
            IF Unwind(s.stack) = << >>
            THEN Advance([s EXCEPT !.stack = << >>, !.pc = "stage", !.idx = 1])
            ELSE [s EXCEPT !.stack = Unwind(@)]
      [] s.pc = "stage" ->
            IF s.idx > Len(Queue(s))
            THEN Advance([s EXCEPT !.pc = "displace", !.idx = 1])
            ELSE [s EXCEPT !.pc = "stage_stat"]
      [] s.pc = "displace" ->
            IF ~s.overwrite \/ s.idx > Len(s.uploaded_tmp_files)
            THEN Advance([s EXCEPT !.pc = "publish", !.idx = 1])
            ELSE s
      [] s.pc = "publish" ->
            IF s.idx > Len(s.uploaded_tmp_files)
            THEN Advance([s EXCEPT !.pc = "finalize", !.idx = 1])
            ELSE s
      [] s.pc = "finalize" ->
            IF s.idx > Len(s.renamed_old_files)
            THEN [s EXCEPT !.pc = "close", !.result = "ok"]
            ELSE s
      [] s.pc = "rollback_tmp" ->
            IF s.idx > Len(s.uploaded_tmp_files)
            THEN Advance([s EXCEPT !.pc = "rollback_old", !.idx = 1])
            ELSE s
      [] s.pc = "rollback_old" ->
            IF s.idx > Len(s.renamed_old_files)
            THEN Advance([s EXCEPT !.pc = "rollback_dirs", !.idx = 1])
            ELSE s
      [] s.pc = "rollback_dirs" ->
            IF s.idx > Len(s.created_directories)
            THEN [s EXCEPT !.pc = "close", !.result = "raised"]
            ELSE s
      [] OTHER -> s

\* except Exception as e: the rollback starts.
Rollback(s, e) ==
    Advance([s EXCEPT !.pc = "rollback_tmp", !.idx = 1, !.exc = e,
                      !.dirs_to_create = << >>])

\* --------------------------------------------------------------- the steps
\* Each step takes the state s and inj, "ok" or "fail": whether the server
\* rejects the remote operation of the step for a reason of its own.

BuildLocalTreeStep(s) ==
    [s EXCEPT !.local_tree = <<build_local_tree(s.localFiles)>>,
              !.pc = "build_remote_tree"]

\* SFTPClient.chdir: chdir(None) forgets the working directory of the
\* session; chdir(path) asks the server for the path and takes it when it
\* is a directory, and raises otherwise, the working directory kept.
chdir(s, path, ok) ==
    IF path = << >> THEN [s EXCEPT !.cwd = << >>]
    ELSE IF ok /\ IsDir(s.rdirs, Head(path)) THEN [s EXCEPT !.cwd = path]
    ELSE s

\* build_remote_tree raises; upload closes the connection and lets the
\* error through.
BuildRemoteTreeRaise(s) ==
    [s EXCEPT !.pc = "close", !.result = "raised", !.exc = "build_remote_tree"]

\* build_remote_tree, up to scan_directory: getcwd, then chdir(root_path);
\* when chdir raises, the finally clause runs on the way out.
BuildRemoteTreeStep(s, inj) ==
    LET entered == [s EXCEPT !.original_cwd = s.cwd]
        moved == chdir(entered, <<Prefix>>, inj = "ok")
    IN  IF moved.cwd = <<Prefix>>
        THEN [moved EXCEPT !.pc = "scan_directory"]
        ELSE BuildRemoteTreeRaise(chdir(entered, entered.original_cwd, TRUE))

\* A build_remote_tree without its finally clause.
ScanDirectoryStep_NoRestore(s, inj) ==
    IF inj = "ok" /\ IsDir(s.rdirs, Prefix)
    THEN [s EXCEPT !.remote_tree = <<build_remote_tree(s.rfiles, s.rdirs, Prefix)>>,
                   !.pc = "prepare_upload_tree"]
    ELSE BuildRemoteTreeRaise(s)

\* scan_directory from root_path: the tree, or the IOError of a listing;
\* either way finally: chdir(original_path).
ScanDirectoryStep(s, inj) ==
    LET restored == chdir(s, s.original_cwd, TRUE)
    IN  IF inj = "ok" /\ IsDir(s.rdirs, Prefix)
        THEN [restored EXCEPT
                 !.remote_tree = <<build_remote_tree(s.rfiles, s.rdirs, Prefix)>>,
                 !.pc = "prepare_upload_tree"]
        ELSE BuildRemoteTreeRaise(restored)

\* prepare_upload_tree plans local_tree in place and returns it.
PrepareUploadTreeStep(s) ==
    LET planned == prepare_upload_tree(Head(s.local_tree), Head(s.remote_tree),
                                       Prefix, s.overwrite)
    IN  [s EXCEPT !.local_tree = <<planned>>, !.prepared_tree = <<planned>>,
                  !.pc = "cleanup_previous_artifacts"]

\* Step 1 of execute_upload: the call of cleanup_previous_artifacts.
CleanupStartStep(s, inj) ==
    LET root_path == CleanupRoot(Head(s.prepared_tree))
    IN  Advance(cleanup_directory(
            [s EXCEPT !.cleanup_root = <<root_path>>, !.pc = "cleanup"],
            root_path, inj))

CleanupStep(s, inj) ==
    LET top == s.stack[Len(s.stack)]
        popped == [s EXCEPT !.stack[Len(s.stack)].todo = Tail(@)]
    IN  Advance(CleanupOp(popped, Head(top.todo), inj))

\* Step 2, upload_folder: stat of the parent directory and the walk upward.
StageStatStep(s, inj) ==
    LET file == Queue(s)[s.idx]
        parent_dir == Dirname(file.remote_path)
        missing == MissingDirs(s.rfiles, s.rdirs, parent_dir)
    IN  IF inj # "ok" THEN Rollback(s, "stat")
        ELSE [s EXCEPT !.dirs_to_create = missing,
                       !.pc = IF missing = << >> THEN "stage_put" ELSE "stage_mkdir"]

StageMkdirStep(s, inj) ==
    LET dir_path == Head(s.dirs_to_create)
    IN  IF inj # "ok" \/ Exists(s.rfiles, s.rdirs, dir_path) THEN Rollback(s, "mkdir")
        ELSE [s EXCEPT !.rdirs = @ \cup {dir_path},
                       !.created_directories = Append(@, dir_path),
                       !.dirs_to_create = Tail(@),
                       !.pc = IF Tail(s.dirs_to_create) = << >>
                              THEN "stage_put" ELSE "stage_mkdir"]

\* An upload that writes to the final name at once, without staging.
StagePutStep_InPlace(s, inj) ==
    LET file == Queue(s)[s.idx]
    IN  IF inj # "ok" THEN Rollback(s, "put")
        ELSE [s EXCEPT !.rfiles = With(@, file.remote_path, "partial"),
                       !.pc = "stage_putting"]

\* put opens tmp_path for writing (created or truncated) ...
StagePutStep(s, inj) ==
    LET file == Queue(s)[s.idx]
        tmp_path == AddSuffix(file.remote_path, TMP)
    IN  IF inj # "ok" \/ ~IsDir(s.rdirs, Dirname(tmp_path)) THEN Rollback(s, "put")
        ELSE [s EXCEPT !.rfiles = With(@, tmp_path, "partial"), !.pc = "stage_putting"]

\* An upload that renames each file to its final name as soon as it is
\* transferred.
StagePuttingStep_PublishAtOnce(s, inj) ==
    LET file == Queue(s)[s.idx]
        tmp_path == AddSuffix(file.remote_path, TMP)
    IN  IF inj # "ok" THEN Rollback(s, "put")
        ELSE Advance([s EXCEPT
                !.rfiles = With(Without(@, tmp_path), file.remote_path, "new"),
                !.uploaded_tmp_files = Append(@, <<Dirname(file.remote_path),
                                                   Basename(tmp_path),
                                                   Basename(file.remote_path)>>),
                !.idx = @ + 1, !.pc = "stage"])

\* ... and writes the content; the file is recorded once put has returned.
StagePuttingStep(s, inj) ==
    LET file == Queue(s)[s.idx]
        tmp_path == AddSuffix(file.remote_path, TMP)
    IN  IF inj # "ok" THEN Rollback(s, "put")
        ELSE Advance([s EXCEPT
                !.rfiles = With(@, tmp_path, "new"),
                !.uploaded_tmp_files = Append(@, <<Dirname(file.remote_path),
                                                   Basename(tmp_path),
                                                   Basename(file.remote_path)>>),
                !.idx = @ + 1, !.pc = "stage"])

\* A Displace that takes a final path that stat does not find for a failure.
DisplaceStep_NotFoundFatal(s, inj) ==
    LET entry == s.uploaded_tmp_files[s.idx]
        original_path == Join(entry[1], entry[3])
        old_path == AddSuffix(original_path, OLD)
    IN  IF inj = "ok" /\ RenameOk(s.rfiles, s.posix, original_path, old_path)
        THEN Advance([s EXCEPT !.rfiles = Rename(@, original_path, old_path),
                               !.renamed_old_files = Append(@, <<entry[1], entry[3]>>),
                               !.idx = @ + 1])
        ELSE Rollback(s, "displace")

\* Step 3: an existing file is renamed to .target_old; one that stat does
\* not find is passed over.
DisplaceStep(s, inj) ==
    LET entry == s.uploaded_tmp_files[s.idx]
        original_path == Join(entry[1], entry[3])
        old_path == AddSuffix(original_path, OLD)
    IN  IF inj # "ok" THEN Rollback(s, "displace")
        ELSE IF ~Exists(s.rfiles, s.rdirs, original_path)
        THEN Advance([s EXCEPT !.idx = @ + 1])
        ELSE IF RenameOk(s.rfiles, s.posix, original_path, old_path)
        THEN Advance([s EXCEPT !.rfiles = Rename(@, original_path, old_path),
                               !.renamed_old_files = Append(@, <<entry[1], entry[3]>>),
                               !.idx = @ + 1])
        ELSE Rollback(s, "displace")

\* Step 4: the .target_tmp file is renamed to its final name.
PublishStep(s, inj) ==
    LET entry == s.uploaded_tmp_files[s.idx]
        tmp_path == Join(entry[1], entry[2])
        final_path == Join(entry[1], entry[3])
    IN  IF inj = "ok" /\ RenameOk(s.rfiles, s.posix, tmp_path, final_path)
        THEN Advance([s EXCEPT !.rfiles = Rename(@, tmp_path, final_path),
                               !.idx = @ + 1])
        ELSE Rollback(s, "publish")

\* A Finalize that lets the failure of a remove reach the except clause of
\* execute_upload.
FinalizeStep_Fatal(s, inj) ==
    LET entry == s.renamed_old_files[s.idx]
        old_path == AddSuffix(Join(entry[1], entry[2]), OLD)
    IN  IF inj = "ok" /\ IsFile(s.rfiles, old_path)
        THEN Advance([s EXCEPT !.rfiles = Without(@, old_path), !.idx = @ + 1])
        ELSE Rollback(s, "finalize")

\* Step 5: the .target_old file is removed; a failure is logged.
FinalizeStep(s, inj) ==
    LET entry == s.renamed_old_files[s.idx]
        old_path == AddSuffix(Join(entry[1], entry[2]), OLD)
    IN  Advance([s EXCEPT
            !.rfiles = IF inj = "ok" /\ IsFile(@, old_path) THEN Without(@, old_path) ELSE @,
            !.idx = @ + 1])

\* A rollback that gives up at the first temp file it cannot remove.
RollbackTmpStep_GiveUp(s, inj) ==
    LET entry == s.uploaded_tmp_files[s.idx]
        tmp_path == Join(entry[1], entry[2])
        ok == inj = "ok" /\ IsFile(s.rfiles, tmp_path)
    IN  IF ok
        THEN Advance([s EXCEPT
                !.rfiles = Without(@, tmp_path),
                !.rb_log = Append(@, <<"remove", tmp_path, "done">>),
                !.idx = @ + 1])
        ELSE [s EXCEPT
                !.rb_log = Append(@, <<"remove", tmp_path, "refused">>),
                !.pc = "close", !.result = "raised"]

\* Rollback: the recorded .target_tmp files are removed ...
RollbackTmpStep(s, inj) ==
    LET entry == s.uploaded_tmp_files[s.idx]
        tmp_path == Join(entry[1], entry[2])
        ok == inj = "ok" /\ IsFile(s.rfiles, tmp_path)
    IN  Advance([s EXCEPT
            !.rfiles = IF ok THEN Without(@, tmp_path) ELSE @,
            !.rb_log = Append(@, <<"remove", tmp_path,
                                   IF ok THEN "done" ELSE IF inj = "ok" THEN "refused"
                                   ELSE "rejected">>),
            !.idx = @ + 1])

\* ... the recorded .target_old files are renamed back ...
RollbackOldStep(s, inj) ==
    LET entry == s.renamed_old_files[s.idx]
        original_path == Join(entry[1], entry[2])
        old_path == AddSuffix(original_path, OLD)
        ok == inj = "ok" /\ RenameOk(s.rfiles, s.posix, old_path, original_path)
    IN  Advance([s EXCEPT
            !.rfiles = IF ok THEN Rename(@, old_path, original_path) ELSE @,
            !.rb_log = Append(@, <<"restore", old_path,
                                   IF ok THEN "done" ELSE IF inj = "ok" THEN "refused"
                                   ELSE "rejected">>),
            !.idx = @ + 1])

\* A rollback that visits the created directories in the order of their
\* creation, the parents first.
RollbackDirsStep_RootFirst(s, inj) ==
    LET dir_path == s.created_directories[s.idx]
        there == IsDir(s.rdirs, dir_path)
        empty == there /\ ListDir(s.rfiles, s.rdirs, dir_path) = << >>
        ok == inj = "ok" /\ empty
    IN  Advance([s EXCEPT
            !.rdirs = IF ok THEN @ \ {dir_path} ELSE @,
            !.rb_log = Append(@, <<"rmdir", dir_path,
                                   IF ok THEN "done" ELSE IF inj # "ok" THEN "rejected"
                                   ELSE IF there THEN "kept" ELSE "gone">>),
            !.idx = @ + 1])

\* ... and the created directories are removed, last created first, each
\* only if its listing is empty; then the error is raised.
RollbackDirsStep(s, inj) ==
    LET dir_path == Reverse(s.created_directories)[s.idx]
        there == IsDir(s.rdirs, dir_path)
        empty == there /\ ListDir(s.rfiles, s.rdirs, dir_path) = << >>
        ok == inj = "ok" /\ empty
    IN  Advance([s EXCEPT
            !.rdirs = IF ok THEN @ \ {dir_path} ELSE @,
            !.rb_log = Append(@, <<"rmdir", dir_path,
                                   IF ok THEN "done" ELSE IF inj # "ok" THEN "rejected"
                                   ELSE IF there THEN "kept" ELSE "gone">>),
            !.idx = @ + 1])

\* The step the control stands at.
Step(s, inj) ==
    CASE s.pc = "build_local_tree" -> BuildLocalTreeStep(s)
      [] s.pc = "build_remote_tree" -> BuildRemoteTreeStep(s, inj)
      [] s.pc = "scan_directory" -> ScanDirectoryStep(s, inj)
      [] s.pc = "prepare_upload_tree" -> PrepareUploadTreeStep(s)
      [] s.pc = "cleanup_previous_artifacts" -> CleanupStartStep(s, inj)
      [] s.pc = "cleanup" -> CleanupStep(s, inj)
      [] s.pc = "stage_stat" -> StageStatStep(s, inj)
      [] s.pc = "stage_mkdir" -> StageMkdirStep(s, inj)
      [] s.pc = "stage_put" -> StagePutStep(s, inj)
      [] s.pc = "stage_putting" -> StagePuttingStep(s, inj)
      [] s.pc = "displace" -> DisplaceStep(s, inj)
      [] s.pc = "publish" -> PublishStep(s, inj)
      [] s.pc = "finalize" -> FinalizeStep(s, inj)
      [] s.pc = "rollback_tmp" -> RollbackTmpStep(s, inj)
      [] s.pc = "rollback_old" -> RollbackOldStep(s, inj)
      [] s.pc = "rollback_dirs" -> RollbackDirsStep(s, inj)
      [] OTHER -> s

\* An invocation that no operation of the server rejects, run to its end.
RECURSIVE RunToEnd(_)
RunToEnd(s) == IF s.pc = "close" THEN s ELSE RunToEnd(Step(s, "ok"))

\* ------------------------------------------------------------- the actions
Snapshot(files, dirs) == [files |-> files, dirs |-> dirs]
NoSnapshot == Snapshot(<< >>, {})

\* What the server rejects: nothing, or one more operation.
Inj == {"ok"} \cup (IF nfail < MaxFailures THEN {"fail"} ELSE {})

CleanupPcs == {"cleanup_previous_artifacts", "cleanup"}
StagePcs == {"stage_stat", "stage_mkdir", "stage_put", "stage_putting"}
RollbackPcs == {"rollback_tmp", "rollback_old", "rollback_dirs"}
ExecPcs == {"cleanup"} \cup StagePcs \cup {"displace", "publish", "finalize"}
           \cup RollbackPcs

\* The step to s, with the bookkeeping of the observer.
Do(s, inj) ==
    /\ Set(s)
    /\ nfail' = IF inj = "ok" THEN nfail ELSE nfail + 1
    /\ clean' = (clean /\ inj = "ok")
    /\ failedAt' = IF inj # "ok" /\ failedAt = "none"
                       /\ pc \in StagePcs \cup {"displace", "publish"}
                    THEN pc ELSE failedAt
    /\ stage0' = IF pc \in CleanupPcs /\ s.pc \notin CleanupPcs
                 THEN Snapshot(s.rfiles, s.rdirs) ELSE stage0
    /\ UNCHANGED <<env, run, nkill, prev, orig, pre, client, chunked>>

Ended(how) ==
    [overwrite |-> overwrite, result |-> how, at |-> pc, idx |-> idx,
     displaced |-> Len(renamed_old_files), clean |-> clean]
NotRun == [overwrite |-> FALSE, result |-> "none", at |-> "idle", idx |-> 1,
           displaced |-> 0, clean |-> TRUE]

\* has_minimum_amount_of_files: raises when input_path does not exist,
\* False when os.walk finds no file under it.
has_minimum_amount_of_files(exists, lfiles) ==
    IF ~exists THEN "raise" ELSE IF lfiles = {} THEN "False" ELSE "True"

\* An upload that opens the connection before it looks at input_path.
UploadEnds_ConnectFirst(how) ==
    /\ pc = "idle" /\ run < MaxRuns
    /\ has_minimum_amount_of_files(inputExists, localFiles) = how
    /\ how # "True"
    /\ conn' = "open"
    /\ result' = IF how = "raise" THEN "raised" ELSE "ok"
    /\ exc' = IF how = "raise" THEN "input_path" ELSE "None"
    /\ run' = run + 1
    /\ UNCHANGED <<rfiles, rdirs, cwd, original_cwd, pc, local_tree, remote_tree,
                   prepared_tree, cleanup_root, stack, idx, dirs_to_create, uploaded_tmp_files,
                   renamed_old_files, created_directories, rb_log,
                   posix, localFiles, inputExists, overwrite,
                   nfail, nkill, clean, failedAt, prev, orig, pre, stage0,
                   client, chunked>>

\* upload ends in has_minimum_amount_of_files, before client.connection:
\* how = "raise", the exception leaves upload; how = "False", upload returns.
UploadEnds(how) ==
    /\ pc = "idle" /\ run < MaxRuns
    /\ has_minimum_amount_of_files(inputExists, localFiles) = how
    /\ how # "True"
    /\ result' = IF how = "raise" THEN "raised" ELSE "ok"
    /\ exc' = IF how = "raise" THEN "input_path" ELSE "None"
    /\ run' = run + 1
    /\ UNCHANGED <<rfiles, rdirs, cwd, original_cwd, pc, local_tree, remote_tree,
                   prepared_tree, cleanup_root, stack, idx, dirs_to_create, uploaded_tmp_files,
                   renamed_old_files, created_directories, rb_log,
                   posix, localFiles, inputExists, overwrite, conn,
                   nfail, nkill, clean, failedAt, prev, orig, pre, stage0,
                   client, chunked>>

UploadMissingInput == UploadEnds("raise")
UploadNoFiles == UploadEnds("False")

\* upload: has_minimum_amount_of_files, then the connection is made and the
\* session acquired (sftp_connection.sftp has returned).
Upload ==
    /\ pc = "idle" /\ run < MaxRuns
    /\ has_minimum_amount_of_files(inputExists, localFiles) = "True"
    /\ \E ow \in BOOLEAN :
          /\ overwrite' = ow
          /\ Set(Fresh(rfiles, rdirs, posix, localFiles, ow))
    /\ conn' = "open" /\ transport' = "open" /\ sftp' = TRUE
    /\ run' = run + 1
    /\ pre' = Snapshot(rfiles, rdirs)
    /\ stage0' = NoSnapshot
    /\ clean' = TRUE
    /\ failedAt' = "none"
    /\ UNCHANGED <<posix, localFiles, inputExists, nfail, nkill, prev, orig,
                   cpc, tries, connect_i, attempts, unclosed, chunked>>

BuildLocalTree == pc = "build_local_tree" /\ Do(BuildLocalTreeStep(Cur), "ok")

BuildRemoteTree ==
    pc = "build_remote_tree" /\ \E inj \in Inj : Do(BuildRemoteTreeStep(Cur, inj), inj)

ScanDirectory ==
    pc = "scan_directory" /\ \E inj \in Inj : Do(ScanDirectoryStep(Cur, inj), inj)

PrepareUploadTree ==
    pc = "prepare_upload_tree" /\ Do(PrepareUploadTreeStep(Cur), "ok")

CleanupPreviousArtifacts ==
    pc = "cleanup_previous_artifacts"
    /\ \E inj \in Inj : Do(CleanupStartStep(Cur, inj), inj)

CleanupDirectory ==
    pc = "cleanup" /\ \E inj \in Inj : Do(CleanupStep(Cur, inj), inj)

StageStat == pc = "stage_stat" /\ \E inj \in Inj : Do(StageStatStep(Cur, inj), inj)

StageMkdir == pc = "stage_mkdir" /\ \E inj \in Inj : Do(StageMkdirStep(Cur, inj), inj)

StagePut == pc = "stage_put" /\ \E inj \in Inj : Do(StagePutStep(Cur, inj), inj)

StagePutting ==
    pc = "stage_putting" /\ \E inj \in Inj : Do(StagePuttingStep(Cur, inj), inj)

Displace == pc = "displace" /\ \E inj \in Inj : Do(DisplaceStep(Cur, inj), inj)

Publish == pc = "publish" /\ \E inj \in Inj : Do(PublishStep(Cur, inj), inj)

Finalize == pc = "finalize" /\ \E inj \in Inj : Do(FinalizeStep(Cur, inj), inj)

RollbackTmp == pc = "rollback_tmp" /\ \E inj \in Inj : Do(RollbackTmpStep(Cur, inj), inj)

RollbackOld == pc = "rollback_old" /\ \E inj \in Inj : Do(RollbackOldStep(Cur, inj), inj)

RollbackDirs ==
    pc = "rollback_dirs" /\ \E inj \in Inj : Do(RollbackDirsStep(Cur, inj), inj)

\* An upload without the finally clause: the connection is closed only when
\* execute_upload has returned.
Close_OnSuccessOnly ==
    /\ pc = "close" /\ result = "ok"
    /\ pc' = "idle"
    /\ conn' = "closed" /\ sftp' = FALSE /\ transport' = "none"
    /\ prev' = Ended(result)
    /\ UNCHANGED <<rfiles, rdirs, cwd, original_cwd, local_tree, remote_tree,
                   prepared_tree, cleanup_root, stack, idx, dirs_to_create, uploaded_tmp_files, renamed_old_files,
                   created_directories, exc, result, rb_log,
                   posix, localFiles, inputExists, overwrite, run, nfail, nkill, clean,
                   failedAt, orig, pre, stage0,
                   cpc, tries, connect_i, attempts, unclosed, chunked>>

\* finally: sftp_connection.close(), which sets the SFTP client and the
\* transport to None whether or not closing them raises (the error is
\* logged); the invocation has ended.
Close ==
    /\ pc = "close"
    /\ pc' = "idle"
    /\ conn' = "closed" /\ sftp' = FALSE /\ transport' = "none"
    /\ prev' = Ended(result)
    /\ UNCHANGED <<rfiles, rdirs, cwd, original_cwd, local_tree, remote_tree,
                   prepared_tree, cleanup_root, stack, idx, dirs_to_create, uploaded_tmp_files, renamed_old_files,
                   created_directories, exc, result, rb_log,
                   posix, localFiles, inputExists, overwrite, run, nfail, nkill, clean,
                   failedAt, orig, pre, stage0,
                   cpc, tries, connect_i, attempts, unclosed, chunked>>

\* The process is killed inside execute_upload: what it held in memory is
\* lost, the connection with it, the server stays as it is.  (A kill of the last invocation of a
\* behaviour is left out: nothing runs after it.)
Kill ==
    /\ pc \in ExecPcs /\ nkill < MaxKills /\ run < MaxRuns
    /\ Set([Fresh(rfiles, rdirs, posix, localFiles, overwrite) EXCEPT !.pc = "idle"])
    /\ conn' = "none" /\ sftp' = FALSE /\ transport' = "none"
    /\ nkill' = nkill + 1
    /\ prev' = Ended("killed")
    /\ failedAt' = "none"
    /\ UNCHANGED <<posix, localFiles, inputExists, overwrite, run, nfail, clean, orig,
                   pre, stage0, cpc, tries, connect_i, attempts, unclosed, chunked>>

\* ---------------------------------------------------------------- Init
LocalTrees ==
    { {<<A>>}, {<<H>>}, {<<SUB, B>>}, {<<A>>, <<SUB, B>>}, {<<H>>, <<SUB, B>>},
      {<<SUB, X, B>>} }

\* The server before the first invocation: the prefix exists, some of the
\* local files have a remote copy already, an empty staging directory is
\* left under the prefix, and a staged file of somebody else lies outside
\* the prefix.
InitFiles(present) ==
    [q \in {Prefix \o f : f \in present} \cup {<<O, Append(X, TMP)>>} |->
        IF q = <<O, Append(X, TMP)>> THEN "ext" ELSE "v0"]
InitDirs(present) ==
    {Root, Prefix, <<O>>, <<P, D>>}
    \cup UNION {{SubSeq(Prefix \o f, 1, k) : k \in 0..(Len(Prefix \o f) - 1)} :
                 f \in present}

InitUpload ==
    /\ \/ inputExists = TRUE /\ localFiles \in LocalTrees \cup {{}}
       \/ inputExists = FALSE /\ localFiles = {}
    /\ posix \in BOOLEAN
    /\ \E present \in SUBSET localFiles :
          /\ rfiles = InitFiles(present)
          /\ rdirs = InitDirs(present)
    /\ orig = Snapshot(rfiles, rdirs)
    /\ pre = Snapshot(rfiles, rdirs)
    /\ stage0 = NoSnapshot
    /\ overwrite = FALSE
    /\ conn = "none"
    /\ cwd = << >> /\ original_cwd = << >>
    /\ pc = "idle"
    /\ local_tree = << >> /\ remote_tree = << >> /\ prepared_tree = << >>
    /\ cleanup_root = << >> /\ stack = << >> /\ idx = 1 /\ dirs_to_create = << >>
    /\ uploaded_tmp_files = << >> /\ renamed_old_files = << >>
    /\ created_directories = << >>
    /\ exc = "None" /\ result = "none" /\ rb_log = << >>
    /\ run = 0 /\ nfail = 0 /\ nkill = 0 /\ clean = TRUE /\ failedAt = "none"
    /\ prev = NotRun

\* SFTPConnection.__init__.
InitClient ==
    /\ cpc = "idle" /\ tries = 0 /\ connect_i = 0
    /\ transport = "none" /\ sftp = FALSE
    /\ attempts = 0 /\ unclosed = 0

\* sftp_connection.sftp has returned: the session is acquired.
SessionAcquired ==
    /\ cpc = "idle" /\ tries = 0 /\ connect_i = 0
    /\ transport = "open" /\ sftp = TRUE
    /\ attempts = 0 /\ unclosed = 0

\* No file is being transferred in chunks.
InitChunked == file_size = 0 /\ worker_count = 1 /\ ranges = << >>

Init == InitUpload /\ InitClient /\ InitChunked

Next ==
    \/ UploadMissingInput \/ UploadNoFiles
    \/ Upload \/ BuildLocalTree \/ BuildRemoteTree \/ ScanDirectory \/ PrepareUploadTree
    \/ CleanupPreviousArtifacts \/ CleanupDirectory
    \/ StageStat \/ StageMkdir \/ StagePut \/ StagePutting
    \/ Displace \/ Publish \/ Finalize
    \/ RollbackTmp \/ RollbackOld \/ RollbackDirs
    \/ Close \/ Kill

Spec == Init /\ [][Next]_vars

\* An invocation that has started goes on: every call returns or raises
\* (no step waits for ever), the process may still be killed.
UploadRuns ==
    \/ BuildLocalTree \/ BuildRemoteTree \/ ScanDirectory \/ PrepareUploadTree
    \/ CleanupPreviousArtifacts \/ CleanupDirectory
    \/ StageStat \/ StageMkdir \/ StagePut \/ StagePutting
    \/ Displace \/ Publish \/ Finalize
    \/ RollbackTmp \/ RollbackOld \/ RollbackDirs
    \/ Close

\* The uploads of one file in a folder below the input root, of no file and
\* of a missing input_path, to a server whose rename refuses an existing
\* target.
InitLive == Init /\ ~posix /\ localFiles \in {{}, {<<SUB, B>>}}
SpecLive == InitLive /\ [][Next]_vars /\ WF_vars(UploadRuns)

\* --------------------------------------------------- SFTPConnection.__connect
retries == 10       \* self.retries
max_tries == 6      \* of backoff.on_exception

\* How one connection attempt ends: "ok"; "ssh", an AuthenticationException
\* or SSHException; "reset", a ConnectionResetError; "eof", an EOFError.
Outcomes == {"ok", "ssh", "reset", "eof"}

\* The property sftp calls __connect.
Acquire ==
    /\ cpc = "idle"
    /\ cpc' = "connect" /\ tries' = 1 /\ connect_i' = 0
    /\ UNCHANGED <<transport, sftp, attempts, unclosed, prog, env, ghost, chunked>>

\* backoff.on_exception: an EOFError or ConnectionResetError that leaves
\* __connect makes the decorator call it again, max_tries calls in all.
OnException ==
    IF tries < max_tries
    THEN cpc' = "connect" /\ tries' = tries + 1 /\ connect_i' = 0
    ELSE cpc' = "raised" /\ UNCHANGED <<tries, connect_i>>

\* except (AuthenticationException, SSHException, ConnectionResetError):
\* self.close(), the sleep, and the raise of the last round of the loop.
Except(outcome) ==
    /\ transport' = "none" /\ sftp' = FALSE
    /\ IF connect_i < retries
       THEN cpc' = "connect" /\ connect_i' = connect_i + 1 /\ UNCHANGED tries
       ELSE IF outcome = "reset" THEN OnException
            ELSE cpc' = "raised" /\ UNCHANGED <<tries, connect_i>>

\* One round of the loop of __connect: a new Transport takes the place of
\* self.transport and connects.
Attempt ==
    /\ cpc = "connect"
    /\ attempts' = attempts + 1
    /\ unclosed' = IF transport = "open" THEN unclosed + 1 ELSE unclosed
    /\ \E outcome \in Outcomes :
          CASE outcome = "ok" ->
                  /\ transport' = "open" /\ sftp' = TRUE
                  /\ cpc' = "returned" /\ UNCHANGED <<tries, connect_i>>
            [] outcome = "eof" ->
                  /\ transport' = "open" /\ sftp' = sftp
                  /\ OnException
            [] OTHER -> Except(outcome)
    /\ UNCHANGED <<prog, env, ghost, chunked>>

\* One upload to come, of the file a to the empty prefix.
InitUploadOne ==
    InitUpload /\ inputExists /\ localFiles = {<<A>>} /\ posix /\ rfiles = InitFiles({})

InitConnect == InitUploadOne /\ InitClient /\ InitChunked
NextConnect == Acquire \/ Attempt
SpecConnect == InitConnect /\ [][NextConnect]_vars

\* ------------------------------------------------------------ ChunkedTransfer
\* The file is divided into worker_count contiguous byte ranges; the last
\* range absorbs the remainder.
chunk_size(size, workers) == size \div workers

\* A division that gives every worker chunk_size bytes, the last one too.
chunk_range_NoRemainder(size, workers, k) ==
    LET offset == k * chunk_size(size, workers)
    IN  <<offset, offset + chunk_size(size, workers)>>

\* The range of worker k, counted from 0: <<offset, end>>, the bytes
\* offset .. end - 1.
chunk_range(size, workers, k) ==
    LET offset == k * chunk_size(size, workers)
    IN  <<offset, IF k = workers - 1 THEN size
                  ELSE offset + chunk_size(size, workers)>>

\* The next worker is given its range.
AssignRange ==
    /\ Len(ranges) < worker_count
    /\ ranges' = Append(ranges, chunk_range(file_size, worker_count, Len(ranges)))
    /\ UNCHANGED <<file_size, worker_count, prog, env, ghost, client>>

InitChunk ==
    /\ InitUploadOne /\ InitClient
    /\ file_size \in 0..MaxSize /\ worker_count \in 1..MaxWorkers /\ ranges = << >>
NextChunk == AssignRange
SpecChunk == InitChunk /\ [][NextChunk]_vars

\* ------------------------------------------ cleanup_previous_artifacts alone
\* upload run without a rejection up to the call of execute_upload.
RECURSIVE AtExecuteUpload(_)
AtExecuteUpload(s) ==
    IF s.pc = "cleanup_previous_artifacts" THEN s ELSE AtExecuteUpload(Step(s, "ok"))

\* What runs before this one may have left under the prefix: a file and its
\* backup and temp file, the backup of a file whose own name ends in the
\* temp suffix, a temp file and a backup in the staging directory, a temp
\* file in a directory.
Leftover ==
    <<P, A>> :> "v0" @@ <<P, Append(A, OLD)>> :> "old" @@ <<P, Append(A, TMP)>> :> "partial"
    @@ <<P, Append(Append(A, TMP), OLD)>> :> "old"
    @@ <<P, D, Append(X, TMP)>> :> "partial" @@ <<P, D, Append(B, OLD)>> :> "old"
    @@ <<P, SUB, Append(B, TMP)>> :> "partial"

\* A directory whose name ends in the temp suffix.
LeftoverDir == <<P, Append(X, TMP)>>

\* The state in which execute_upload calls cleanup_previous_artifacts, on a
\* server that holds any of the leftovers; the root folder of the local tree
\* holds a file (the cleanup is called with the prefix) or none (with "/").
InitCleanup ==
    /\ SessionAcquired /\ InitChunked
    /\ posix \in BOOLEAN /\ inputExists = TRUE /\ overwrite = FALSE /\ conn = "open"
    /\ localFiles \in {{<<A>>}, {<<SUB, B>>}}
    /\ \E left \in SUBSET DOMAIN Leftover, more \in SUBSET {LeftoverDir} :
          /\ rfiles = [q \in left \cup DOMAIN InitFiles({}) |->
                          IF q \in left THEN Leftover[q] ELSE InitFiles({})[q]]
          /\ rdirs = InitDirs({}) \cup {<<P, SUB>>} \cup more
    /\ LET s == AtExecuteUpload(Fresh(rfiles, rdirs, posix, localFiles, overwrite))
       IN  /\ cwd = s.cwd /\ original_cwd = s.original_cwd /\ pc = s.pc
           /\ local_tree = s.local_tree /\ remote_tree = s.remote_tree
           /\ prepared_tree = s.prepared_tree /\ cleanup_root = s.cleanup_root
           /\ stack = s.stack /\ idx = s.idx /\ dirs_to_create = s.dirs_to_create
           /\ uploaded_tmp_files = s.uploaded_tmp_files
           /\ renamed_old_files = s.renamed_old_files
           /\ created_directories = s.created_directories
           /\ exc = s.exc /\ result = s.result /\ rb_log = s.rb_log
    /\ orig = Snapshot(rfiles, rdirs)
    /\ pre = Snapshot(rfiles, rdirs)
    /\ stage0 = NoSnapshot
    /\ run = 1 /\ nfail = 0 /\ nkill = 0 /\ clean = TRUE /\ failedAt = "none"
    /\ prev = NotRun

NextCleanup == CleanupPreviousArtifacts \/ CleanupDirectory
SpecCleanup == InitCleanup /\ [][NextCleanup]_vars

\* ------------------------------------------------- prepare_upload_tree alone
\* The tree with the files and the nested folders of every folder in the
\* opposite order: the same tree, listed otherwise.
RECURSIVE Mirror(_)
Mirror(folder) ==
    Folder(folder.name, folder.path,
           Reverse([i \in 1..Len(folder.nested_folders) |->
                       Mirror(folder.nested_folders[i])]),
           Reverse(folder.files))

\* The local inputs of the planner: those of upload, and one with two files
\* in one folder.
PlanTrees == LocalTrees \cup {{<<A>>, <<X>>, <<SUB, B>>}}

\* The remote trees build_remote_tree can return for a prefix that holds
\* some of the local files, in either order of listing.
RemoteTrees(lfiles) ==
    LET built == {build_remote_tree(InitFiles(present), InitDirs(present), Prefix) :
                     present \in SUBSET lfiles}
    IN  built \cup {Mirror(r) : r \in built}

\* upload at the call of prepare_upload_tree, the two trees built in either
\* order of listing.
InitPlan ==
    /\ SessionAcquired /\ InitChunked
    /\ posix = FALSE /\ inputExists = TRUE /\ overwrite \in BOOLEAN /\ conn = "open"
    /\ localFiles \in PlanTrees
    /\ \E present \in SUBSET localFiles :
          rfiles = InitFiles(present) /\ rdirs = InitDirs(present)
    /\ local_tree \in {<<build_local_tree(localFiles)>>,
                       <<Mirror(build_local_tree(localFiles))>>}
    /\ remote_tree \in {<<build_remote_tree(rfiles, rdirs, Prefix)>>,
                        <<Mirror(build_remote_tree(rfiles, rdirs, Prefix))>>}
    /\ pc = "prepare_upload_tree" /\ prepared_tree = << >>
    /\ cwd = << >> /\ original_cwd = << >>
    /\ cleanup_root = << >> /\ stack = << >> /\ idx = 1 /\ dirs_to_create = << >>
    /\ uploaded_tmp_files = << >> /\ renamed_old_files = << >>
    /\ created_directories = << >>
    /\ exc = "None" /\ result = "none" /\ rb_log = << >>
    /\ orig = Snapshot(rfiles, rdirs)
    /\ pre = Snapshot(rfiles, rdirs)
    /\ stage0 = NoSnapshot
    /\ run = 1 /\ nfail = 0 /\ nkill = 0 /\ clean = TRUE /\ failedAt = "none"
    /\ prev = NotRun

\* prepare_upload_tree called on the tree it has planned, with any remote
\* tree and any overwrite: remote_tree and overwrite hold the arguments of
\* the last call.
PrepareUploadTreeAgain ==
    /\ pc = "cleanup_previous_artifacts"
    /\ \E r \in RemoteTrees(localFiles), ow \in BOOLEAN :
          LET planned == prepare_upload_tree(Head(local_tree), r, Prefix, ow)
          IN  /\ remote_tree' = <<r>> /\ overwrite' = ow
              /\ local_tree' = <<planned>> /\ prepared_tree' = <<planned>>
    /\ UNCHANGED <<rfiles, rdirs, cwd, original_cwd, pc, cleanup_root, stack, idx,
                   dirs_to_create, uploaded_tmp_files, renamed_old_files,
                   created_directories, exc, result, rb_log,
                   posix, localFiles, inputExists, conn, ghost, client, chunked>>

NextPlan == PrepareUploadTree \/ PrepareUploadTreeAgain
SpecPlan == InitPlan /\ [][NextPlan]_vars

\* ------------------------------------------------------------ the claims
Planned == IF prepared_tree = << >> THEN {} ELSE SeqToSet(TreeFiles(Head(prepared_tree)))

\* The files of a tree, each as <<the names of the folders from the root,
\* the name of the file>>.
RECURSIVE TreeEntries(_, _)
TreeEntries(folder, at) ==
    {<<at, folder.files[i].name>> : i \in 1..Len(folder.files)}
    \cup UNION {TreeEntries(folder.nested_folders[i],
                            Append(at, folder.nested_folders[i].name)) :
                i \in 1..Len(folder.nested_folders)}

InRemoteTree(f) ==
    <<Dirname(f.local_path), f.name>> \in TreeEntries(Head(remote_tree), << >>)

\* What lies at or below the transfer prefix.
UnderPrefix(files) == [q \in {r \in DOMAIN files : IsUnder(r, Prefix)} |-> files[q]]
DirsUnderPrefix(dirs) == {d \in dirs : IsUnder(d, Prefix)}

\* C1: once the plan is made, every local file is in it, and a file is
\* marked Skip (should_be_copied false) exactly when overwrite is false and
\* the remote tree has a file of its name in the folder of the same path;
\* in every other case it stays marked for transfer.
C1_PlannerDecisionTable ==
    prepared_tree # << >> =>
        /\ {f.local_path : f \in Planned} = localFiles
        /\ \A f \in Planned :
              /\ f.remote_path = Prefix \o f.local_path
              /\ f.should_be_copied = ~(~overwrite /\ InRemoteTree(f))

\* C1, witness: one plan with a file skipped, and a file to transfer whose
\* remote folder does not exist.
C1_Witness ==
    /\ pc = "cleanup_previous_artifacts"
    /\ \E f, g \in Planned :
          /\ ~f.should_be_copied
          /\ g.should_be_copied
          /\ find_remote_folder(Head(remote_tree), Dirname(g.local_path)) = << >>

\* C2: with overwrite false, an invocation that follows one that completed
\* plans every file as Skip, transfers nothing, raises nothing and leaves
\* the remote tree as the first one left it.
C2_IdempotentSkip ==
    (/\ prev.result = "ok" /\ ~prev.overwrite /\ prev.clean
     /\ pc # "idle" /\ ~overwrite /\ clean /\ prepared_tree # << >>) =>
        /\ \A f \in Planned : ~f.should_be_copied
        /\ uploaded_tmp_files = << >>
        /\ result # "raised"
        /\ UnderPrefix(rfiles) = UnderPrefix(pre.files)
        /\ DirsUnderPrefix(rdirs) = DirsUnderPrefix(pre.dirs)

Version(files, path) == IF path \in DOMAIN files THEN files[path] ELSE "absent"

\* execute_upload is running or has just ended.
InExecute == pc \in CleanupPcs \cup ExecPcs \cup {"close"}

Displaced(path) == <<Dirname(path), Basename(path)>> \in SeqToSet(renamed_old_files)

\* C3, as claimed: throughout execute_upload the final path of every file
\* holds its pre-run version or the new version; a file that existed
\* before the run is never absent from its final path.
C3_AtomicVisibility_Claimed ==
    InExecute =>
        \A f \in Planned :
            Version(rfiles, f.remote_path)
                \in {Version(pre.files, f.remote_path), "new"}

\* C3, amended: throughout execute_upload the final path of a file never
\* holds partial content: it holds a complete pre-run version (the one at
\* the final path or the one of its backup) or the complete new version, or
\* nothing; a file that existed before the run is absent from its final
\* path only after Displace has renamed it aside, until Publish or the
\* rollback puts a version there.
C3_AtomicVisibility ==
    InExecute =>
        \A f \in Planned :
            LET final_path == f.remote_path
                old_path == AddSuffix(final_path, OLD)
            IN  /\ Version(rfiles, final_path)
                     \in {"absent", "new", Version(pre.files, final_path),
                          Version(pre.files, old_path)}
                /\ Version(rfiles, final_path) # "partial"
                /\ (final_path \in DOMAIN pre.files /\ final_path \notin DOMAIN rfiles)
                     => /\ Displaced(final_path)
                        /\ pc \in {"displace", "publish"} \cup RollbackPcs
                           \/ result = "raised"

\* C3, witness: between Displace and Publish a file that existed before the
\* run is absent from its final path while its new version is staged.
C3_Witness ==
    /\ pc = "publish"
    /\ \E f \in Planned :
          /\ f.remote_path \in DOMAIN pre.files
          /\ f.remote_path \notin DOMAIN rfiles
          /\ Version(rfiles, AddSuffix(f.remote_path, TMP)) = "new"

\* The invocation before this one was killed with the file at final_path
\* displaced and not published: backup and temp file present, final path
\* absent.
LeftDisplaced(final_path) ==
    /\ prev.result = "killed"
    /\ final_path \notin DOMAIN pre.files
    /\ AddSuffix(final_path, OLD) \in DOMAIN pre.files
    /\ AddSuffix(final_path, TMP) \in DOMAIN pre.files

\* C4: after a kill between Displace and Publish the next invocation has
\* the file back at its final path before it builds the remote tree, so the
\* plan finds the file in the remote tree and decides Skip without
\* overwrite, transfer with it.  (Stated for the files a remote tree can
\* show, those whose name does not start with a dot.)
C4_RestoredBeforePlan ==
    (pc # "idle" /\ prepared_tree # << >>) =>
        \A f \in Planned :
            (LeftDisplaced(f.remote_path) /\ ~StartsWithDot(f.name)) =>
                /\ InRemoteTree(f)
                /\ f.should_be_copied = overwrite

\* The first invocation was killed after Stage and before Displace and
\* Publish did anything, the server having rejected nothing; the second
\* one runs with the same configuration and the server rejects nothing.
KilledAfterStage ==
    /\ run = 2 /\ pc # "idle"
    /\ prev.result = "killed" /\ prev.at \in {"displace", "publish"}
    /\ prev.idx = 1 /\ prev.displaced = 0 /\ prev.clean
    /\ overwrite = prev.overwrite /\ clean

\* The end of one uninterrupted invocation from the server as it was
\* before the first one.
Uninterrupted ==
    RunToEnd(Fresh(orig.files, orig.dirs, posix, localFiles, overwrite))

HasTmp(files) ==
    \E q \in DOMAIN files : IsUnder(q, Prefix) /\ EndsWith(Basename(q), TMP)

\* C5: after a kill between Stage and Publish, the cleanup of the next
\* invocation leaves no temp file under the prefix, and the invocation ends
\* with the remote tree that an uninterrupted one would have made.
C5_Recoverability ==
    KilledAfterStage =>
        /\ (stage0 # NoSnapshot => ~HasTmp(stage0.files))
        /\ pc = "close" =>
              /\ UnderPrefix(rfiles) = UnderPrefix(Uninterrupted.rfiles)
              /\ DirsUnderPrefix(rdirs) = DirsUnderPrefix(Uninterrupted.rdirs)

\* The rollback has run to its end and the server rejected none of its
\* operations.
RolledBack == pc = "close" /\ result = "raised" /\ exc # "build_remote_tree"
NothingRejectedInRollback == \A i \in 1..Len(rb_log) : rb_log[i][3] # "rejected"
RollbackOpsSucceeded ==
    \A i \in 1..Len(rb_log) : rb_log[i][3] \notin {"rejected", "refused"}

\* C6: when a transfer fails during Stage nothing has been displaced, and
\* after a rollback whose operations all succeed the remote tree is the
\* tree as it was when Stage began.
C6_StageFailureRollback ==
    (RolledBack /\ exc = "put" /\ RollbackOpsSucceeded) =>
        /\ renamed_old_files = << >>
        /\ rfiles = stage0.files
        /\ rdirs = stage0.dirs

\* C7: after the rollback of a failure in Displace or Publish every file
\* this run displaced is at its final path again with the content it had,
\* and its backup is gone.
C7_DisplacePublishRollback ==
    (RolledBack /\ exc \in {"displace", "publish"} /\ NothingRejectedInRollback) =>
        \A i \in 1..Len(renamed_old_files) :
            LET final_path == Join(renamed_old_files[i][1], renamed_old_files[i][2])
            IN  /\ Version(rfiles, final_path) = Version(stage0.files, final_path)
                /\ AddSuffix(final_path, OLD) \notin DOMAIN rfiles

\* What the rollback has to attempt, in its order.
RollbackPlan ==
    [i \in 1..Len(uploaded_tmp_files) |->
        <<"remove", Join(uploaded_tmp_files[i][1], uploaded_tmp_files[i][2])>>]
    \o [i \in 1..Len(renamed_old_files) |->
        <<"restore", AddSuffix(Join(renamed_old_files[i][1], renamed_old_files[i][2]), OLD)>>]
    \o [i \in 1..Len(created_directories) |->
        <<"rmdir", created_directories[Len(created_directories) + 1 - i]>>]
Attempted == [i \in 1..Len(rb_log) |-> <<rb_log[i][1], rb_log[i][2]>>]
CauseOf(at) ==
    CASE at = "stage_stat" -> "stat" [] at = "stage_mkdir" -> "mkdir"
      [] at \in {"stage_put", "stage_putting"} -> "put"
      [] OTHER -> at

C9_CleanupScope ==
    /\ cleanup_root # << >> => Head(cleanup_root) = Prefix
    /\ \A q \in DOMAIN orig.files :
          ~IsUnder(q, Prefix) => Version(rfiles, q) = orig.files[q]

\* C10: a backup that Finalize could not delete (final path new, backup
\* old): after the cleanup of the next invocation the final path still
\* holds the new version and the backup is gone.
C10_OrphanedBackupHarmless ==
    (/\ pc # "idle" /\ prev.result = "ok" /\ prev.overwrite
     /\ stage0 # NoSnapshot /\ clean) =>
        \A f \in Planned :
            LET final_path == f.remote_path
                old_path == AddSuffix(final_path, OLD)
            IN  (Version(pre.files, final_path) = "new" /\ old_path \in DOMAIN pre.files)
                    => /\ Version(stage0.files, final_path) = "new"
                       /\ old_path \notin DOMAIN stage0.files

\* C11: Finalize is entered only with every staged file under its final
\* name, and every step of Finalize, whether its remove succeeds or fails,
\* goes on to the next backup or ends the run as Published: no rollback
\* starts, nothing is raised, and the run ends only past the last backup.
C11_FinalizeNotFatal ==
    [][(pc = "finalize" /\ pc' # "idle") =>
          /\ \A i \in 1..Len(uploaded_tmp_files) :
                Version(rfiles, Join(uploaded_tmp_files[i][1],
                                     uploaded_tmp_files[i][3])) = "new"
          /\ idx' = idx + 1
          /\ exc' = "None"
          /\ renamed_old_files' = renamed_old_files
          /\ pc' \in {"finalize", "close"}
          /\ pc' = "finalize" => result' = "none"
          /\ pc' = "close" => result' = "ok" /\ idx' = Len(renamed_old_files) + 1]_vars

\* C11, witness: a run has ended as Published although the first of its two
\* backups could not be deleted; the second one was deleted after it.
C11_Witness ==
    /\ pc = "close" /\ result = "ok" /\ Len(renamed_old_files) = 2
    /\ AddSuffix(Join(renamed_old_files[1][1], renamed_old_files[1][2]), OLD)
           \in DOMAIN rfiles
    /\ AddSuffix(Join(renamed_old_files[2][1], renamed_old_files[2][2]), OLD)
           \notin DOMAIN rfiles

\* The entries with the temp or the backup suffix.
Suffixed(files) ==
    {q \in DOMAIN files : EndsWith(Basename(q), TMP) \/ EndsWith(Basename(q), OLD)}

\* C12: after a run that returned normally with no operation
\* rejected, every file planned for transfer holds the local content at its
\* final path, every Skip file holds what it held before the run, and every
\* temp or backup entry on the server was there before the run, unchanged.
C12_SuccessPostcondition ==
    (pc = "close" /\ result = "ok" /\ clean) =>
        /\ \A f \in Planned :
              Version(rfiles, f.remote_path) =
                  IF f.should_be_copied THEN "new"
                  ELSE Version(pre.files, f.remote_path)
        /\ \A q \in Suffixed(rfiles) : Version(pre.files, q) = rfiles[q]

\* The temp files this run has written, in part or in whole, that are
\* still under their temp name; the backups and the directories it has made
\* since Stage began.
PutIssued ==
    LET queue == Queue(Cur)
        n == CASE pc = "stage_putting" -> idx
               [] pc \in StagePcs -> idx - 1
               [] OTHER -> Len(queue)
    IN  {AddSuffix(queue[i].remote_path, TMP) : i \in 1..n}
TmpWritten == PutIssued \cap DOMAIN rfiles
OldMade ==
    {q \in DOMAIN rfiles : EndsWith(Basename(q), OLD)
                           /\ Version(stage0.files, q) # rfiles[q]}
DirsMade == rdirs \ stage0.dirs

\* What the StagingRecord holds, as paths.
TmpRecorded ==
    {Join(uploaded_tmp_files[i][1], uploaded_tmp_files[i][2]) :
        i \in 1..Len(uploaded_tmp_files)}
OldRecorded ==
    {AddSuffix(Join(renamed_old_files[i][1], renamed_old_files[i][2]), OLD) :
        i \in 1..Len(renamed_old_files)}

\* C13: from the start of Stage until Finalize or the rollback begins the
\* record matches the server: the recorded temp files are the temp files
\* this run wrote that are still under their temp name, the recorded
\* backups are the backups this run made, the recorded directories are the
\* directories this run created.
C13_StagingRecordConsistency ==
    pc \in StagePcs \cup {"displace", "publish"} =>
        /\ TmpRecorded = TmpWritten
        /\ OldRecorded = OldMade
        /\ SeqToSet(created_directories) = DirsMade

\* What the calls of cleanup_directory in progress have left to do, the
\* innermost call first.
RECURSIVE Pending(_)
Pending(stk) ==
    IF stk = << >> THEN << >>
    ELSE stk[Len(stk)].todo \o Pending(SubSeq(stk, 1, Len(stk) - 1))

IsSuffix(tail, whole) ==
    /\ Len(tail) <= Len(whole)
    /\ SubSeq(whole, Len(whole) - Len(tail) + 1, Len(whole)) = tail

C15_NoInputNoSession ==
    has_minimum_amount_of_files(inputExists, localFiles) # "True" =>
        /\ conn = "none" /\ pc = "idle"
        /\ local_tree = << >> /\ remote_tree = << >>
        /\ rfiles = orig.files /\ rdirs = orig.dirs
        /\ run > 0 => /\ result = IF inputExists THEN "ok" ELSE "raised"
                      /\ exc = IF inputExists THEN "None" ELSE "input_path"

\* C15, witness: upload has raised over a missing input_path.
C15_Witness == ~inputExists /\ run > 0 /\ result = "raised" /\ conn = "none"

\* C16: build_remote_tree keeps the working directory it finds on entry,
\* and every step that leaves build_remote_tree, with a tree or with the
\* error of a chdir or of a listing, leaves the session with that working
\* directory.
C16_WorkingDirectoryRestored ==
    [][/\ pc = "build_remote_tree" =>
             /\ original_cwd' = cwd
             /\ pc' \in {"scan_directory", "close"}
             /\ pc' = "close" => cwd' = cwd /\ result' = "raised"
       /\ pc = "scan_directory" =>
             /\ pc' \in {"prepare_upload_tree", "close"}
             /\ cwd' = original_cwd
             /\ pc' = "close" => result' = "raised"]_vars

\* C16, witness: build_remote_tree has raised over a listing, after it had
\* changed the working directory to the prefix; the working directory is
\* the one of the entry again.
C16_Witness ==
    /\ pc = "close" /\ exc = "build_remote_tree" /\ result = "raised"
    /\ cwd = original_cwd /\ IsDir(rdirs, Prefix) /\ ~clean

\* C17: a call that acquires a session makes a bounded number of
\* connection attempts, returns only with a transport open and the SFTP
\* client set, and starts every attempt with the transport of the attempt
\* before it closed.
C17_SessionAcquisitionTerminates ==
    /\ attempts <= max_tries * (retries + 1)
    /\ cpc = "returned" => sftp /\ transport = "open"
    /\ cpc = "connect" => transport = "none" /\ unclosed = 0

\* The bytes of a range.
Bytes(range) == {b \in 0..MaxSize : range[1] <= b /\ b < range[2]}

\* C18: once the worker_count ranges of a file of file_size bytes are given
\* out, each starts where the one before it ends, the first at 0, the last
\* ending at file_size; no two of them share a byte and together they are
\* the bytes 0 .. file_size - 1.
C18_ChunkCoverage ==
    Len(ranges) = worker_count =>
        /\ ranges[1][1] = 0
        /\ ranges[worker_count][2] = file_size
        /\ \A k \in 1..worker_count : ranges[k][1] <= ranges[k][2]
        /\ \A k \in 1..(worker_count - 1) : ranges[k][2] = ranges[k + 1][1]
        /\ \A j, k \in 1..worker_count :
              j # k => Bytes(ranges[j]) \cap Bytes(ranges[k]) = {}
        /\ UNION {Bytes(ranges[k]) : k \in 1..worker_count}
               = {b \in 0..MaxSize : b < file_size}

\* C18, witness: a file whose size is no multiple of the worker count has
\* all its ranges, the last one longer than the others.
C18_Witness ==
    /\ Len(ranges) = worker_count /\ worker_count > 1
    /\ file_size % worker_count # 0 /\ file_size > worker_count
    /\ ranges[worker_count][2] - ranges[worker_count][1] > chunk_size(file_size, worker_count)

\* The phases of execute_upload in their order; the rollback and the end
\* come after them.
Rank(p) ==
    CASE p \in CleanupPcs -> 1
      [] p \in StagePcs -> 2
      [] p = "displace" -> 3
      [] p = "publish" -> 4
      [] p = "finalize" -> 5
      [] p \in RollbackPcs -> 6
      [] p = "close" -> 7
      [] OTHER -> 0

FinalOf(i) == Join(uploaded_tmp_files[i][1], uploaded_tmp_files[i][3])
TmpOf(i) == Join(uploaded_tmp_files[i][1], uploaded_tmp_files[i][2])

\* C19: a run of execute_upload never goes back to an earlier phase and
\* enters the rollback only from Stage, Displace or Publish.  During Stage
\* nothing is renamed aside and no final path of a file to transfer
\* changes; Displace, Publish and Finalize run with every file to transfer
\* staged; during Displace nothing is published yet; during Publish with
\* overwrite every final path still to publish has been cleared.  The run
\* ends either returning, with no exception, or raising after the rollback.
C19_PhaseOrdering ==
    /\ [](/\ pc \in StagePcs =>
                /\ renamed_old_files = << >>
                /\ \A f \in Planned :
                      f.should_be_copied =>
                          Version(rfiles, f.remote_path)
                              = Version(stage0.files, f.remote_path)
          /\ pc \in {"displace", "publish", "finalize"} =>
                Len(uploaded_tmp_files) = Len(Queue(Cur))
          /\ pc = "displace" =>
                \A i \in 1..Len(uploaded_tmp_files) :
                    /\ Version(rfiles, TmpOf(i)) = "new"
                    /\ Version(rfiles, FinalOf(i))
                           \in {Version(stage0.files, FinalOf(i)), "absent"}
          /\ (pc = "publish" /\ overwrite) =>
                \A i \in idx..Len(uploaded_tmp_files) : FinalOf(i) \notin DOMAIN rfiles
          /\ (pc = "close" /\ exc # "build_remote_tree") =>
                /\ result \in {"ok", "raised"}
                /\ result = "ok" <=> exc = "None")
    /\ [][(Rank(pc) > 0 /\ pc' # "idle") =>
             /\ Rank(pc') >= Rank(pc)
             /\ Rank(pc') = 6 => Rank(pc) \in {2, 3, 4, 6}
             /\ pc' = "close" =>
                   /\ result' = "ok" => Rank(pc) <= 5
                   /\ result' = "raised" => Rank(pc) \in {2, 3, 4, 6}]_vars

\* C19, witness: Publish is under way with two files staged and both
\* displaced, the first one published and the second one not yet.
C19_Witness ==
    /\ pc = "publish" /\ idx = 2
    /\ Len(uploaded_tmp_files) = 2 /\ Len(renamed_old_files) = 2
    /\ Version(rfiles, FinalOf(1)) = "new"
    /\ FinalOf(2) \notin DOMAIN rfiles

Unsuffixed(q) == ~EndsWith(Basename(q), TMP) /\ ~EndsWith(Basename(q), OLD)

\* C20: in a run with overwrite false every file that was on the server
\* before the run under a name without the temp or the backup suffix stays
\* where it was with the content it had, and no temp file is written or
\* recorded for a file planned Skip.
C20_NoOverwriteSafety ==
    ~overwrite =>
        /\ \A q \in DOMAIN pre.files :
              Unsuffixed(q) => Version(rfiles, q) = pre.files[q]
        /\ \A f \in Planned :
              ~f.should_be_copied =>
                  /\ Version(rfiles, AddSuffix(f.remote_path, TMP))
                         \in {"absent", Version(pre.files, AddSuffix(f.remote_path, TMP))}
                  /\ \A i \in 1..Len(uploaded_tmp_files) :
                        FinalOf(i) # f.remote_path

\* C21: Displace runs only with overwrite.  A step of Displace that finds
\* nothing at the final path of a staged file records no backup, changes
\* nothing on the server, raises nothing and goes on to the next file or to
\* Publish, the file still among those to publish; a backup entry is added
\* only in the step whose rename to the backup name has succeeded, and a
\* step of Displace that fails adds none.  Publish then renames the temp
\* file of such a file to its final name.
C21_DisplaceToleratesVanished ==
    [][/\ (pc = "displace" /\ pc' # "idle") =>
             LET entry == uploaded_tmp_files[idx]
                 final_path == Join(entry[1], entry[3])
                 old_path == AddSuffix(final_path, OLD)
             IN  /\ overwrite
                 /\ uploaded_tmp_files' = uploaded_tmp_files
                 /\ (~Exists(rfiles, rdirs, final_path) /\ nfail' = nfail) =>
                       /\ renamed_old_files' = renamed_old_files
                       /\ rfiles' = rfiles /\ rdirs' = rdirs
                       /\ exc' = "None" /\ result' = "none"
                       /\ pc' \in {"displace", "publish"}
                       /\ pc' = "displace" => idx' = idx + 1
                       /\ pc' = "publish" =>
                             idx = Len(uploaded_tmp_files) /\ idx' = 1
                 /\ renamed_old_files' # renamed_old_files =>
                       /\ renamed_old_files'
                              = Append(renamed_old_files, <<entry[1], entry[3]>>)
                       /\ final_path \in DOMAIN rfiles
                       /\ rfiles' = Rename(rfiles, final_path, old_path)
                       /\ exc' = "None"
                 /\ exc' # "None" =>
                       renamed_old_files' = renamed_old_files /\ rfiles' = rfiles
       /\ (pc = "publish" /\ pc' # "idle" /\ nfail' = nfail
           /\ FinalOf(idx) \notin DOMAIN rfiles) =>
             /\ Version(rfiles', FinalOf(idx)) = "new"
             /\ TmpOf(idx) \notin DOMAIN rfiles'
             /\ exc' = "None"]_vars

\* C21, witness: a run with overwrite has ended returning with two files
\* published, one of them displaced and the other, which Displace did not
\* find at its final path, published without a backup entry.
C21_Witness ==
    /\ pc = "close" /\ result = "ok" /\ overwrite
    /\ Len(uploaded_tmp_files) = 2 /\ Len(renamed_old_files) = 1
    /\ \E i \in 1..2 :
          /\ FinalOf(i) \notin DOMAIN stage0.files
          /\ <<uploaded_tmp_files[i][1], uploaded_tmp_files[i][3]>>
                 \notin SeqToSet(renamed_old_files)
          /\ Version(rfiles, FinalOf(i)) = "new"

\* ds is a chain of directories, each the parent of the next, down to leaf.
IsChain(ds, leaf) ==
    ds # << >> =>
        /\ ds[Len(ds)] = leaf
        /\ \A k \in 2..Len(ds) : Dirname(ds[k]) = ds[k - 1]

\* C22: the stat step of Stage finds the missing directories above a file
\* as the chain from just below the first existing directory down to the
\* parent of the file; each mkdir step creates the first of those still to
\* create, below a directory that exists, and records it at the end of the
\* list, nothing else ever adding to the list: the list holds every
\* directory after its ancestors, none twice, none that existed before the
\* run.  A step of the rollback of directories visits the list from its end,
\* touches no file, and removes at most the directory it visits, and only if
\* that one is empty at the moment and was created by this run; the other
\* rollback steps remove no directory.  So no directory that existed before
\* the run is removed (the cleanup alone removes directories of before, the
\* empty staging directories), and after a rollback in which the server
\* rejected nothing every created directory that is left holds something.
C22_DirectoryUnwinding ==
    /\ [](/\ \A i, j \in 1..Len(created_directories) :
                i < j => /\ created_directories[i] # created_directories[j]
                         /\ ~IsUnder(created_directories[i], created_directories[j])
          /\ \A i \in 1..Len(created_directories) :
                created_directories[i] \notin pre.dirs
          /\ \A d \in pre.dirs \ rdirs :
                /\ EndsWith(Basename(d), DIRTMP)
                /\ stage0 # NoSnapshot => d \notin stage0.dirs
          /\ (RolledBack /\ NothingRejectedInRollback) =>
                \A i \in 1..Len(created_directories) :
                    created_directories[i] \in rdirs =>
                        ListDir(rfiles, rdirs, created_directories[i]) # << >>)
    /\ [][/\ (pc = "stage_stat" /\ pc' \in {"stage_mkdir", "stage_put"}) =>
                LET parent_dir == Dirname(Queue(Cur)[idx].remote_path)
                    ds == dirs_to_create'
                IN  /\ IsChain(ds, parent_dir)
                    /\ \A k \in 1..Len(ds) : ~Exists(rfiles, rdirs, ds[k])
                    /\ ds = << >> => Exists(rfiles, rdirs, parent_dir)
                    /\ ds # << >> => Exists(rfiles, rdirs, Dirname(ds[1]))
                    /\ pc' = "stage_mkdir" <=> ds # << >>
                    /\ rdirs' = rdirs
          /\ (pc = "stage_mkdir" /\ pc' \in StagePcs) =>
                LET dir_path == Head(dirs_to_create)
                IN  /\ dir_path \notin rdirs /\ Dirname(dir_path) \in rdirs
                    /\ rdirs' = rdirs \cup {dir_path}
                    /\ created_directories' = Append(created_directories, dir_path)
                    /\ dirs_to_create' = Tail(dirs_to_create)
                    /\ pc' = "stage_mkdir" <=> dirs_to_create' # << >>
          /\ (pc # "idle" /\ pc' # "idle"
              /\ ~(pc = "stage_mkdir" /\ pc' \in StagePcs)) =>
                created_directories' = created_directories
          /\ (pc \in {"rollback_tmp", "rollback_old"} /\ pc' # "idle") =>
                rdirs' = rdirs
          /\ (pc = "rollback_dirs" /\ pc' # "idle") =>
                LET dir_path ==
                        created_directories[Len(created_directories) + 1 - idx]
                IN  /\ Len(rb_log') = Len(rb_log) + 1
                    /\ rb_log'[Len(rb_log')][1] = "rmdir"
                    /\ rb_log'[Len(rb_log')][2] = dir_path
                    /\ rfiles' = rfiles
                    /\ rdirs' \in {rdirs, rdirs \ {dir_path}}
                    /\ rdirs' # rdirs =>
                          /\ ListDir(rfiles, rdirs, dir_path) = << >>
                          /\ dir_path \notin pre.dirs
                    /\ pc' \in {"rollback_dirs", "close"}
                    /\ pc' = "rollback_dirs" => idx' = idx + 1
                    /\ pc' = "close" =>
                          idx = Len(created_directories) /\ result' = "raised"]_vars

\* C22, witness: a run that created /p/sub and then /p/sub/x for one file
\* has been rolled back: x was removed first, sub after it, and the prefix,
\* which was there before the run, is still there.
C22_Witness ==
    /\ RolledBack
    /\ created_directories = << <<P, SUB>>, <<P, SUB, X>> >>
    /\ Len(rb_log) >= 2
    /\ rb_log[Len(rb_log) - 1] = <<"rmdir", <<P, SUB, X>>, "done">>
    /\ rb_log[Len(rb_log)] = <<"rmdir", <<P, SUB>>, "done">>
    /\ <<P, SUB>> \notin rdirs /\ Prefix \in rdirs

\* The paths below root, root itself left out.
Below(paths, root) == {q \in paths : IsUnder(q, root) /\ q # root}

\* The server accepted every operation of the cleanup: it rejected none for
\* a reason of its own, and no rename met an existing target on a server
\* that refuses one.
CleanupAccepted ==
    /\ clean
    /\ posix \/ \A q \in Below(DOMAIN pre.files, Head(cleanup_root)) :
                    EndsWith(Basename(q), OLD) =>
                        Join(Dirname(q), StripSuffix(Basename(q)))
                            \notin DOMAIN pre.files

\* C23: when the cleanup has ended with every operation accepted, no file
\* and no directory below the cleanup root has a name that ends in the
\* backup or the temp suffix, every file that was there only as a backup is
\* under its original name with the content of the backup, and a directory
\* whose name carries the staging marker is gone exactly when nothing is
\* left in it.
C23_CleanerPostcondition ==
    (stage0 # NoSnapshot /\ cleanup_root # << >> /\ CleanupAccepted) =>
        LET root == Head(cleanup_root)
        IN  /\ \A q \in Below(DOMAIN stage0.files \cup stage0.dirs, root) :
                  ~EndsWith(Basename(q), OLD) /\ ~EndsWith(Basename(q), TMP)
            /\ \A q \in Below(DOMAIN pre.files, root) :
                  LET original_path == Join(Dirname(q), StripSuffix(Basename(q)))
                  IN  (EndsWith(Basename(q), OLD)
                       /\ original_path \notin DOMAIN pre.files) =>
                          Version(stage0.files, original_path) = pre.files[q]
            /\ \A d \in Below(pre.dirs, root) :
                  EndsWith(Basename(d), DIRTMP) =>
                      (d \notin stage0.dirs
                          <=> ListDir(stage0.files, stage0.dirs, d) = << >>)

\* What a plan assigns: for every file, its remote_path and its decision.
PlanOf(folder) ==
    {<<f.local_path, f.remote_path, f.should_be_copied>> :
        f \in SeqToSet(TreeFiles(folder))}

\* The plan of the local files against the server, the two trees built in
\* the order of the listing.
PlanFor(ow) ==
    PlanOf(prepare_upload_tree(build_local_tree(localFiles),
                               build_remote_tree(rfiles, rdirs, Prefix), Prefix, ow))

\* C24: the plan prepare_upload_tree makes assigns to every file the
\* remote_path and the decision that follow from the local files, the
\* remote files, the prefix and overwrite, in whatever order the two trees
\* list them; and a call of prepare_upload_tree on a tree that is planned,
\* with any remote tree and any overwrite, changes nothing in it.
C24_PlannerGuardAndDeterminism ==
    [][/\ (pc = "prepare_upload_tree" /\ pc' # "idle") =>
             /\ prepared_tree' # << >>
             /\ PlanOf(Head(prepared_tree')) = PlanFor(overwrite)
             /\ {e[1] : e \in PlanOf(Head(prepared_tree'))} = localFiles
       /\ (prepared_tree # << >> /\ prepared_tree' # << >>) =>
             /\ prepared_tree' = prepared_tree
             /\ local_tree' = local_tree]_vars

\* C24, witness: prepare_upload_tree has been called on the planned tree
\* with arguments that give a tree not yet planned another plan, and the tree
\* holds the plan of the first call.
C24_Witness ==
    /\ pc = "cleanup_previous_artifacts" /\ prepared_tree # << >>
    /\ PlanOf(Head(prepared_tree)) = PlanFor(~overwrite)
    /\ PlanOf(prepare_upload_tree(build_local_tree(localFiles), Head(remote_tree),
                                  Prefix, overwrite))
           # PlanOf(Head(prepared_tree))
    /\ \E f, g \in Planned : f.should_be_copied /\ ~g.should_be_copied

\* C25: from the moment upload holds a session until it ends, the rollback
\* included, the connection is open with its SFTP client and its transport;
\* the connection is closed in one step only, the one that ends upload,
\* taken after execute_upload has returned or, when it failed, after every
\* step of the rollback has been attempted and the error raised, or after
\* build_remote_tree has raised; the step touches nothing on the server and
\* leaves the connection with neither an SFTP client nor a transport; and a
\* connection that is open is closed in the end, unless the process is
\* killed.
C25_SessionRelease ==
    /\ [](/\ pc # "idle" => conn = "open" /\ sftp /\ transport = "open"
          /\ conn = "open" => pc # "idle"
          /\ conn = "closed" => ~sftp /\ transport = "none")
    /\ [][(conn' = "closed" /\ conn # "closed") =>
             /\ pc = "close" /\ pc' = "idle"
             /\ result \in {"ok", "raised"}
             /\ result = "ok" <=> exc = "None"
             /\ exc \notin {"None", "build_remote_tree"} => Attempted = RollbackPlan
             /\ exc = "build_remote_tree" => prepared_tree = << >>
             /\ ~sftp' /\ transport' = "none"
             /\ rfiles' = rfiles /\ rdirs' = rdirs]_vars
    /\ (conn = "open") ~> (conn = "closed" \/ (conn = "none" /\ prev.result = "killed"))

\* C25, witness: the connection is closed after a run whose execute_upload
\* raised at the end of a rollback that removed a temp file and renamed a
\* backup back.
C25_Witness ==
    /\ conn = "closed" /\ pc = "idle" /\ ~sftp /\ transport = "none"
    /\ prev.result = "raised" /\ exc = "publish"
    /\ Len(rb_log) = 2 /\ rb_log[1][1] = "remove" /\ rb_log[2][1] = "restore"

====
